---- MODULE Spec2Model ----
(***************************************************************************)
(* Rate limiting, usage accounting and request pipeline of the Andikar     *)
(* backend API gateway (src/main.py).                                      *)
(*                                                                         *)
(* Time is counted in whole ticks of the clock that time.time() and        *)
(* datetime.utcnow() read.  A worker is one request being served; its pc   *)
(* is the position of the request inside rate_limit_middleware and the     *)
(* route handler.  Every access to the database is one step, so that       *)
(* requests served by different workers interleave exactly at the          *)
(* database operations and at the awaits of the code.                      *)
(***************************************************************************)
EXTENDS Integers, Sequences, FiniteSets, TLC

\* ---- bounds of the model ------------------------------------------------
MaxWorkers == 2
MaxTime == 5
MaxLimit == 3
MaxPeriod == 4
MaxCalls == 5
MaxApiCalls == 3
MaxShortRun == 2
TicksPerDay == 3

Workers == 1..MaxWorkers
Times == 0..MaxTime
Days == 0..(MaxTime \div TicksPerDay)

\* ---- request inputs -----------------------------------------------------
NoHeader == "none"
ClientIPs == {"ip1"}
ApiKeyHeaders == {NoHeader, "k1"}
RateKeys == ClientIPs \cup (ApiKeyHeaders \ {NoHeader, ""})
ApiPaths == {"/api/humanize", "/api/detect"}
Paths == ApiPaths \cup {"/health"}
NoToken == ""
UserNames == {"u1", "u2"}
Tokens == UserNames \cup {NoToken}
\* request bodies, as the word lists input_text.split() yields
Texts == {<<"a">>, <<"a", "b", "c">>}

NoRow == [absent |-> TRUE]
NoRequest == [path |-> "", api_key |-> NoHeader, client_ip |-> ""]
NoLocals == [user |-> "", word_count |-> 0, log |-> 0, start_time |-> 0,
             processing_time |-> 0, today |-> 0, stat |-> 0,
             stat_row |-> NoRow, words_used |-> 0]

VARIABLES
    settings,      \* Settings: RATE_LIMIT_REQUESTS, RATE_LIMIT_PERIOD, detector URL set
    concurrency,   \* number of requests that may be in flight at once
    faulty,        \* whether operations on the store may raise
    remaining,     \* number of requests still to arrive
    clock,         \* the wall clock
    rate_limits,   \* table rate_limits: key -> row, NoRow when there is none
    rate_limit_rows, \* table rate_limits: key -> number of rows with this key
    users,         \* table users
    api_logs,      \* table api_logs, in insertion order
    usage_stats,   \* table usage_stats, in insertion order
    pc,            \* position of each worker
    request,       \* the request a worker serves
    now,           \* local `now` of rate_limit_middleware
    rate_limit,    \* local `rate_limit`: the row the middleware's query returned
    status,        \* status code of the response, 0 while there is none
    h,             \* locals of the route handler
    calls,         \* history: key -> <<time, admitted?>> of every decided call
    overlaps,      \* history: key -> number of pairs of calls that were inside the limiter together
    mwFailed,      \* history: the middleware of this worker's request raised
    rowBefore,     \* history: the key's row when the worker's request arrived
    trail,         \* history: the stages the worker's request has gone through
    dbBefore,      \* history: the handler's tables when the request arrived
    extCalls,      \* history: number of calls made to the external services
    recorded,      \* history: per user and day, the totals of the answered operations
    fn             \* a pure function applied on its own: its inputs and result

envVars == <<settings, concurrency, faulty, fn>>
dbVars == <<users, api_logs, usage_stats>>
mwVars == <<now, rate_limit>>
histVars == <<calls, overlaps, mwFailed, rowBefore, trail, dbBefore, extCalls, recorded>>
NoCall == [op |-> "none"]
vars == <<settings, concurrency, faulty, remaining, clock, rate_limits,
          rate_limit_rows, users,
          api_logs, usage_stats, pc, request, now, rate_limit, status, h,
          calls, overlaps, mwFailed, rowBefore, trail, dbBefore, extCalls,
          recorded, fn>>

\* ---- pure helpers -------------------------------------------------------
\* rate_limit_key = api_key if api_key else client_ip
RateLimitKey(api_key, client_ip) ==
    IF api_key # NoHeader /\ api_key # "" THEN api_key ELSE client_ip

\* paths the middleware passes through unchecked
ExemptPath(path) ==
    path \in {"/docs", "/redoc", "/openapi.json", "/", "/health"}

\* faulty pruning: an entry exactly one period old is kept
PruneInclusive(requests, t, period) ==
    SelectSeq(requests, LAMBDA req : t - req <= period)

\* [req for req in rate_limit.requests if now - req < RATE_LIMIT_PERIOD]
RECURSIVE Prune(_, _, _)
Prune(requests, t, period) ==
    IF requests = <<>> THEN <<>>
    ELSE IF t - Head(requests) < period
         THEN <<Head(requests)>> \o Prune(Tail(requests), t, period)
         ELSE Prune(Tail(requests), t, period)

\* faulty check: the limit is exceeded only above it
LimitExceededStrict(requests, limit) == Len(requests) > limit

\* len(requests) >= settings.RATE_LIMIT_REQUESTS
LimitExceeded(requests, limit) == Len(requests) >= limit

\* faulty admit: `now` is appended to the list as it was read
AdmitRowNoPrune(row, t, period) ==
    IF row # NoRow
    THEN [requests |-> Append(row.requests, t), last_updated |-> t]
    ELSE [requests |-> <<t>>, last_updated |-> t]

\* the row the admit path writes: lines 199-202 for an existing row,
\* lines 206-210 for a key seen for the first time
AdmitRow(row, t, period) ==
    IF row # NoRow
    THEN [requests |-> Append(Prune(row.requests, t, period), t),
          last_updated |-> t]
    ELSE [requests |-> <<t>>, last_updated |-> t]

\* len(request.input_text.split())
WordCount(text) == Len(text)

\* the (year, month, day) of datetime.utcnow(), as the number of the day
Day(t) == t \div TicksPerDay

\* the operation a route accounts for
Kind(path) == IF path = "/api/humanize" THEN "humanize" ELSE "detect"

\* faulty insert: the first operation of a day is not counted
NewStatUncounted(user, day, kind, word_count, processing_time) ==
    [user_id |-> user, day |-> day, humanize_requests |-> 0,
     detect_requests |-> 0, words_processed |-> word_count,
     total_processing_time |-> processing_time]

\* models.UsageStat(...) of the first operation of a user's day; the counter
\* that is not given takes the column default 0
NewStat(user, day, kind, word_count, processing_time) ==
    [user_id |-> user, day |-> day,
     humanize_requests |-> IF kind = "humanize" THEN 1 ELSE 0,
     detect_requests |-> IF kind = "detect" THEN 1 ELSE 0,
     words_processed |-> word_count,
     total_processing_time |-> processing_time]

\* faulty update: the word count replaces the day's total
UpdatedStatOverwrite(cur, read, kind, word_count, processing_time) ==
    [cur EXCEPT
        !.humanize_requests =
            IF kind = "humanize" THEN read.humanize_requests + 1 ELSE @,
        !.detect_requests =
            IF kind = "detect" THEN read.detect_requests + 1 ELSE @,
        !.words_processed = word_count,
        !.total_processing_time = read.total_processing_time + processing_time]

\* usage_stat.<kind>_requests += 1; words_processed += word_count;
\* total_processing_time += processing_time, flushed as an UPDATE of the
\* changed columns: `read` is the row as the query returned it, `cur` the
\* row in the table when the UPDATE is applied
UpdatedStat(cur, read, kind, word_count, processing_time) ==
    [cur EXCEPT
        !.humanize_requests =
            IF kind = "humanize" THEN read.humanize_requests + 1 ELSE @,
        !.detect_requests =
            IF kind = "detect" THEN read.detect_requests + 1 ELSE @,
        !.words_processed = read.words_processed + word_count,
        !.total_processing_time = read.total_processing_time + processing_time]

\* table pricing_plans as seeded at startup (word limits scaled down)
pricing_plans ==
    [p \in {"free", "basic"} |->
        [word_limit |-> IF p = "free" THEN 1 ELSE 2]]

KeyOf(w) == RateLimitKey(request[w].api_key, request[w].client_ip)

InFlight == {w \in Workers : pc[w] # "idle"}

\* the workers whose request is inside the limiter for key k: `now` is
\* taken, the row is not written yet
Limiting(k) ==
    {v \in Workers : pc[v] \in {"mw_query", "mw_check"} /\ KeyOf(v) = k}

\* ---- initial state ------------------------------------------------------
InitSystem ==
    /\ settings \in [RATE_LIMIT_REQUESTS : 1..MaxLimit,
                     RATE_LIMIT_PERIOD : 1..MaxPeriod,
                     detector_configured : BOOLEAN]
    /\ concurrency \in 1..MaxWorkers
    /\ faulty \in BOOLEAN
    /\ remaining \in {MaxShortRun, MaxApiCalls, MaxCalls}
    /\ clock = 0
    /\ rate_limits = [k \in RateKeys |-> NoRow]
    /\ rate_limit_rows = [k \in RateKeys |-> 0]
    /\ users = [u \in UserNames |->
                  IF u = "u1"
                  THEN [payment_status |-> "Paid", plan_id |-> "basic",
                        is_active |-> TRUE, words_used |-> 0]
                  ELSE [payment_status |-> "Pending", plan_id |-> "free",
                        is_active |-> TRUE, words_used |-> 0]]
    /\ api_logs = <<>>
    /\ usage_stats = <<>>
    /\ pc = [w \in Workers |-> "idle"]
    /\ request = [w \in Workers |-> NoRequest]
    /\ now = [w \in Workers |-> 0]
    /\ rate_limit = [w \in Workers |-> NoRow]
    /\ status = [w \in Workers |-> 0]
    /\ h = [w \in Workers |-> NoLocals]
    /\ calls = [k \in RateKeys |-> <<>>]
    /\ overlaps = [k \in RateKeys |-> 0]
    /\ mwFailed = [w \in Workers |-> ""]
    /\ rowBefore = [w \in Workers |-> NoRow]
    /\ trail = [w \in Workers |-> <<>>]
    /\ dbBefore = [w \in Workers |-> <<>>]
    /\ extCalls = 0
    /\ recorded = [ud \in UserNames \X Days |->
                      [humanize |-> 0, detect |-> 0, words |-> 0, time |-> 0]]

Init == InitSystem /\ fn = NoCall

\* ---- environment --------------------------------------------------------
Tick ==
    /\ clock < MaxTime
    /\ clock' = clock + 1
    /\ UNCHANGED <<envVars, remaining, rate_limits, rate_limit_rows, dbVars,
                   pc, request, mwVars, status, h, histVars>>

\* ---- rate_limit_middleware ----------------------------------------------
\* faulty except branch: the error is answered, the request is not forwarded
FailClosed(w, k, t, op) ==
    /\ pc' = [pc EXCEPT ![w] = "done"]
    /\ status' = [status EXCEPT ![w] = 500]
    /\ mwFailed' = [mwFailed EXCEPT ![w] = op]
    /\ calls' = [calls EXCEPT ![k] = Append(@, <<t, FALSE>>)]
    /\ trail' = [trail EXCEPT ![w] = Append(@, "limit")]

\* the middleware's except branch: log, then fall through to call_next
FailOpen(w, k, t, op) ==
    /\ pc' = [pc EXCEPT ![w] = "call_next"]
    /\ status' = status
    /\ mwFailed' = [mwFailed EXCEPT ![w] = op]
    /\ calls' = [calls EXCEPT ![k] = Append(@, <<t, TRUE>>)]
    /\ trail' = [trail EXCEPT ![w] = Append(@, "limit")]

\* a request arrives; lines 171-185: exempt paths skip the limiter, otherwise
\* the session is obtained, the key is chosen and `now` is taken
MwEnter(w) ==
    /\ pc[w] = "idle"
    /\ \A v \in Workers : v < w => pc[v] # "idle"
    /\ Cardinality(InFlight) < concurrency
    /\ remaining > 0
    /\ remaining' = remaining - 1
    /\ \E path \in Paths, api_key \in ApiKeyHeaders, client_ip \in ClientIPs,
          sessionOk \in BOOLEAN :
          LET r == [path |-> path, api_key |-> api_key, client_ip |-> client_ip]
              k == RateLimitKey(api_key, client_ip)
          IN  /\ request' = [request EXCEPT ![w] = r]
              /\ rowBefore' = [rowBefore EXCEPT ![w] = rate_limits[k]]
              /\ dbBefore' = [dbBefore EXCEPT ![w] =
                                <<users, api_logs, usage_stats, extCalls>>]
              /\ IF ExemptPath(path)
                 THEN /\ sessionOk
                      /\ pc' = [pc EXCEPT ![w] = "call_next"]
                      /\ UNCHANGED <<now, status, mwFailed, calls, trail>>
                      /\ UNCHANGED overlaps
                 ELSE IF sessionOk
                 THEN /\ pc' = [pc EXCEPT ![w] = "mw_query"]
                      /\ now' = [now EXCEPT ![w] = clock]
                      /\ overlaps' = [overlaps EXCEPT ![k] =
                            @ + Cardinality(Limiting(k))]
                      /\ UNCHANGED <<status, mwFailed, calls, trail>>
                 ELSE /\ faulty
                      /\ FailOpen(w, k, clock, "session")
                      /\ UNCHANGED <<now, overlaps>>
    /\ UNCHANGED <<envVars, clock, rate_limits, rate_limit_rows, dbVars,
                   rate_limit, h, extCalls, recorded>>

\* line 186: db.query(models.RateLimit).filter(key == rate_limit_key).first()
MwQuery(w) ==
    /\ pc[w] = "mw_query"
    /\ \/ /\ rate_limit' = [rate_limit EXCEPT ![w] = rate_limits[KeyOf(w)]]
          /\ pc' = [pc EXCEPT ![w] = "mw_check"]
          /\ UNCHANGED <<status, mwFailed, calls, trail>>
       \/ /\ faulty
          /\ FailOpen(w, KeyOf(w), now[w], "query")
          /\ UNCHANGED rate_limit
    /\ UNCHANGED <<envVars, remaining, clock, rate_limits, rate_limit_rows,
                   dbVars, request, now, h, overlaps, rowBefore, dbBefore,
                   extCalls, recorded>>

\* faulty reject: the pruned list is written back before the 429
MwRejectPersist(w) ==
    /\ pc[w] = "mw_check"
    /\ rate_limit[w] # NoRow
    /\ LimitExceeded(Prune(rate_limit[w].requests, now[w],
                           settings.RATE_LIMIT_PERIOD),
                     settings.RATE_LIMIT_REQUESTS)
    /\ rate_limits' = [rate_limits EXCEPT ![KeyOf(w)] =
           [requests |-> Prune(rate_limit[w].requests, now[w],
                               settings.RATE_LIMIT_PERIOD),
            last_updated |-> now[w]]]
    /\ status' = [status EXCEPT ![w] = 429]
    /\ pc' = [pc EXCEPT ![w] = "done"]
    /\ calls' = [calls EXCEPT ![KeyOf(w)] = Append(@, <<now[w], FALSE>>)]
    /\ trail' = [trail EXCEPT ![w] = @ \o <<"limit", "rejected">>]
    /\ UNCHANGED <<envVars, remaining, clock, rate_limit_rows, dbVars,
                   request, mwVars, h, overlaps, mwFailed, rowBefore,
                   dbBefore, extCalls, recorded>>

\* faulty reject: the 429 is built but not returned, the request goes on
MwRejectForward(w) ==
    /\ pc[w] = "mw_check"
    /\ rate_limit[w] # NoRow
    /\ LimitExceeded(Prune(rate_limit[w].requests, now[w],
                           settings.RATE_LIMIT_PERIOD),
                     settings.RATE_LIMIT_REQUESTS)
    /\ status' = [status EXCEPT ![w] = 429]
    /\ pc' = [pc EXCEPT ![w] = "call_next"]
    /\ calls' = [calls EXCEPT ![KeyOf(w)] = Append(@, <<now[w], FALSE>>)]
    /\ trail' = [trail EXCEPT ![w] = @ \o <<"limit", "rejected">>]
    /\ UNCHANGED <<envVars, remaining, clock, rate_limits, rate_limit_rows,
                   dbVars, request, mwVars, h, overlaps, mwFailed, rowBefore,
                   dbBefore, extCalls, recorded>>

\* lines 188-197: prune, and answer 429 when the limit is reached
MwReject(w) ==
    /\ pc[w] = "mw_check"
    /\ rate_limit[w] # NoRow
    /\ LimitExceeded(Prune(rate_limit[w].requests, now[w],
                           settings.RATE_LIMIT_PERIOD),
                     settings.RATE_LIMIT_REQUESTS)
    /\ status' = [status EXCEPT ![w] = 429]
    /\ pc' = [pc EXCEPT ![w] = "done"]
    /\ calls' = [calls EXCEPT ![KeyOf(w)] = Append(@, <<now[w], FALSE>>)]
    /\ trail' = [trail EXCEPT ![w] = @ \o <<"limit", "rejected">>]
    /\ UNCHANGED <<envVars, remaining, clock, rate_limits, rate_limit_rows,
                   dbVars, request, mwVars, h, overlaps, mwFailed, rowBefore,
                   dbBefore, extCalls, recorded>>

\* faulty schema: rate_limits.key is not unique, every INSERT is accepted
CommitUnchecked(w) == TRUE

\* db.commit() of the admit path: an UPDATE of the row that was read, or an
\* INSERT that the unique constraint on rate_limits.key refuses when another
\* request has inserted the key in the meantime
CommitAccepted(w) ==
    rate_limit[w] # NoRow \/ rate_limits[KeyOf(w)] = NoRow

\* lines 199-212: append `now`, write the row, commit
MwAdmit(w) ==
    /\ pc[w] = "mw_check"
    /\ rate_limit[w] # NoRow =>
          ~LimitExceeded(Prune(rate_limit[w].requests, now[w],
                               settings.RATE_LIMIT_PERIOD),
                         settings.RATE_LIMIT_REQUESTS)
    /\ IF CommitAccepted(w)
       THEN \/ /\ rate_limits' = [rate_limits EXCEPT ![KeyOf(w)] =
                    AdmitRow(rate_limit[w], now[w], settings.RATE_LIMIT_PERIOD)]
               /\ rate_limit_rows' =
                     IF rate_limit[w] # NoRow THEN rate_limit_rows
                     ELSE [rate_limit_rows EXCEPT ![KeyOf(w)] = @ + 1]
               /\ pc' = [pc EXCEPT ![w] = "call_next"]
               /\ calls' = [calls EXCEPT ![KeyOf(w)] = Append(@, <<now[w], TRUE>>)]
               /\ trail' = [trail EXCEPT ![w] = Append(@, "limit")]
               /\ UNCHANGED <<status, mwFailed>>
            \/ /\ faulty
               /\ FailOpen(w, KeyOf(w), now[w], "commit")
               /\ UNCHANGED <<rate_limits, rate_limit_rows>>
       ELSE /\ FailOpen(w, KeyOf(w), now[w], "conflict")
            /\ UNCHANGED <<rate_limits, rate_limit_rows>>
    /\ UNCHANGED <<envVars, remaining, clock, dbVars, request, mwVars, h,
                   overlaps, rowBefore, dbBefore, extCalls, recorded>>

\* line 217: response = await call_next(request), for a route that changes
\* none of the tables of the model
CallNext(w) ==
    /\ pc[w] = "call_next"
    /\ status' = [status EXCEPT ![w] = 200]
    /\ pc' = [pc EXCEPT ![w] = "done"]
    /\ UNCHANGED <<envVars, remaining, clock, rate_limits, rate_limit_rows,
                   dbVars, request, mwVars, h, histVars>>

\* line 218: the response is returned and the worker is free again
Return(w) ==
    /\ pc[w] = "done"
    /\ pc' = [pc EXCEPT ![w] = "idle"]
    /\ request' = [request EXCEPT ![w] = NoRequest]
    /\ now' = [now EXCEPT ![w] = 0]
    /\ rate_limit' = [rate_limit EXCEPT ![w] = NoRow]
    /\ status' = [status EXCEPT ![w] = 0]
    /\ h' = [h EXCEPT ![w] = NoLocals]
    /\ mwFailed' = [mwFailed EXCEPT ![w] = ""]
    /\ rowBefore' = [rowBefore EXCEPT ![w] = NoRow]
    /\ trail' = [trail EXCEPT ![w] = <<>>]
    /\ dbBefore' = [dbBefore EXCEPT ![w] = <<>>]
    /\ UNCHANGED <<envVars, remaining, clock, rate_limits, rate_limit_rows,
                   dbVars, calls, overlaps, extCalls, recorded>>

\* ---- route handlers -----------------------------------------------------
\* get_current_user (lines 135-155): the user the bearer token names, if any
CurrentUser(token) == IF token \in DOMAIN users THEN token ELSE NoToken

\* faulty checks: the payment status is not looked at
RefusedUnpaidServed(path, token, text) ==
    LET user == CurrentUser(token)
    IN  IF user = NoToken THEN 401
        ELSE IF ~users[user].is_active THEN 400
        ELSE IF path # "/api/humanize" THEN 0
        ELSE IF users[user].plan_id \notin DOMAIN pricing_plans THEN 400
        ELSE IF WordCount(text) > pricing_plans[users[user].plan_id].word_limit
             THEN 400
        ELSE 0

\* the status the handler raises before it logs the request, 0 when it goes
\* on: 401/400 of get_current_active_user, 402 of the payment check and, for
\* /api/humanize, 400 of the plan and word-limit checks
Refused(path, token, text) ==
    LET user == CurrentUser(token)
    IN  IF user = NoToken THEN 401
        ELSE IF ~users[user].is_active THEN 400
        ELSE IF users[user].payment_status # "Paid" THEN 402
        ELSE IF path # "/api/humanize" THEN 0
        ELSE IF users[user].plan_id \notin DOMAIN pricing_plans THEN 400
        ELSE IF WordCount(text) > pricing_plans[users[user].plan_id].word_limit
             THEN 400
        ELSE 0

\* the detector URL is unset or the placeholder (line 495)
LocalDetection(w) ==
    request[w].path = "/api/detect" /\ ~settings.detector_configured

\* a route outside the model's tables answers
OtherRoute(w) ==
    /\ request[w].path \notin ApiPaths
    /\ CallNext(w)

\* faulty handler: a refused request gives its rate-limit slot back
HandlerEnterRefunds(w) ==
    /\ pc[w] = "call_next"
    /\ request[w].path \in ApiPaths
    /\ \E token \in Tokens, text \in Texts :
          LET refused == Refused(request[w].path, token, text)
              row == rate_limits[KeyOf(w)]
          IN  IF refused # 0
              THEN /\ status' = [status EXCEPT ![w] = refused]
                   /\ pc' = [pc EXCEPT ![w] = "done"]
                   /\ rate_limits' =
                         IF row = NoRow THEN rate_limits
                         ELSE [rate_limits EXCEPT ![KeyOf(w)].requests =
                                  SubSeq(@, 1, Len(@) - 1)]
                   /\ h' = [h EXCEPT ![w] =
                         [NoLocals EXCEPT !.user = CurrentUser(token)]]
                   /\ UNCHANGED api_logs
              ELSE /\ api_logs' = Append(api_logs,
                         [user_id |-> CurrentUser(token),
                          endpoint |-> request[w].path,
                          request_size |-> WordCount(text),
                          status_code |-> 0])
                   /\ h' = [h EXCEPT ![w] =
                         [NoLocals EXCEPT !.user = CurrentUser(token),
                                          !.word_count = WordCount(text),
                                          !.log = Len(api_logs) + 1,
                                          !.start_time = clock]]
                   /\ pc' = [pc EXCEPT ![w] =
                         IF LocalDetection(w) THEN "account" ELSE "external"]
                   /\ UNCHANGED <<status, rate_limits>>
    /\ UNCHANGED <<envVars, remaining, clock, rate_limit_rows, users,
                   usage_stats, request, mwVars, histVars>>

\* humanize_text_api lines 374-410, detect_ai_content_api lines 475-494:
\* authentication, the checks, the APILog row and its commit, start_time
HandlerEnter(w) ==
    /\ pc[w] = "call_next"
    /\ request[w].path \in ApiPaths
    /\ \E token \in Tokens, text \in Texts :
          LET refused == Refused(request[w].path, token, text)
          IN  IF refused # 0
              THEN /\ status' = [status EXCEPT ![w] = refused]
                   /\ pc' = [pc EXCEPT ![w] = "done"]
                   /\ h' = [h EXCEPT ![w] =
                         [NoLocals EXCEPT !.user = CurrentUser(token)]]
                   /\ UNCHANGED api_logs
              ELSE /\ api_logs' = Append(api_logs,
                         [user_id |-> CurrentUser(token),
                          endpoint |-> request[w].path,
                          request_size |-> WordCount(text),
                          status_code |-> 0])
                   /\ h' = [h EXCEPT ![w] =
                         [NoLocals EXCEPT !.user = CurrentUser(token),
                                          !.word_count = WordCount(text),
                                          !.log = Len(api_logs) + 1,
                                          !.start_time = clock]]
                   /\ pc' = [pc EXCEPT ![w] =
                         IF LocalDetection(w) THEN "account" ELSE "external"]
                   /\ UNCHANGED status
    /\ UNCHANGED <<envVars, remaining, clock, rate_limits, rate_limit_rows,
                   users, usage_stats, request, mwVars, histVars>>

\* faulty except branch: the 503 is raised, but the attempt is counted
ExternalCountsFailure(w) ==
    /\ pc[w] = "external"
    /\ extCalls' = extCalls + 1
    /\ \/ /\ trail' = [trail EXCEPT ![w] = Append(@, "operation")]
          /\ pc' = [pc EXCEPT ![w] = "account"]
          /\ UNCHANGED <<status, api_logs, usage_stats>>
       \/ /\ trail' = [trail EXCEPT ![w] = @ \o <<"operation", "ext_failed">>]
          /\ pc' = [pc EXCEPT ![w] = "done"]
          /\ status' = [status EXCEPT ![w] = 503]
          /\ usage_stats' = Append(usage_stats,
                NewStat(h[w].user, Day(clock), Kind(request[w].path),
                        h[w].word_count, clock - h[w].start_time))
          /\ UNCHANGED api_logs
    /\ UNCHANGED <<envVars, remaining, clock, rate_limits, rate_limit_rows,
                   users, request, mwVars, h, calls, overlaps, mwFailed,
                   rowBefore, dbBefore, recorded>>

\* faulty except branch: the failed operation is accounted like a served one
ExternalRecords(w) ==
    /\ pc[w] = "external"
    /\ extCalls' = extCalls + 1
    /\ \/ /\ trail' = [trail EXCEPT ![w] = Append(@, "operation")]
          /\ pc' = [pc EXCEPT ![w] = "account"]
          /\ UNCHANGED <<status, api_logs>>
       \/ /\ trail' = [trail EXCEPT ![w] = @ \o <<"operation", "ext_failed">>]
          /\ pc' = [pc EXCEPT ![w] = "account"]
          /\ UNCHANGED <<status, api_logs>>
       \/ /\ trail' = [trail EXCEPT ![w] = @ \o <<"operation", "ext_malformed">>]
          /\ IF request[w].path = "/api/humanize"
             THEN /\ pc' = [pc EXCEPT ![w] = "done"]
                  /\ status' = [status EXCEPT ![w] = 500]
             ELSE /\ pc' = [pc EXCEPT ![w] = "account"]
                  /\ UNCHANGED status
          /\ UNCHANGED api_logs
    /\ UNCHANGED <<envVars, remaining, clock, rate_limits, rate_limit_rows,
                   users, usage_stats, request, mwVars, h, calls, overlaps,
                   mwFailed, rowBefore, dbBefore, recorded>>

\* lines 411-424 and 534-540, 575-584: the awaited call of the external
\* service; on an httpx.HTTPError (timeout, connection error, or the
\* raise_for_status() of a non-success status) the request ends in a 503,
\* which /api/detect also writes into its APILog row. A success whose body
\* cannot be read raises another error, answered as a 500: response.json()
\* ["result"] of /api/humanize at line 418, before the accounting, and
\* response.json() of /api/detect at line 574, after it
External(w) ==
    /\ pc[w] = "external"
    /\ extCalls' = extCalls + 1
    /\ \/ /\ trail' = [trail EXCEPT ![w] = Append(@, "operation")]
          /\ pc' = [pc EXCEPT ![w] = "account"]
          /\ UNCHANGED <<status, api_logs>>
       \/ /\ trail' = [trail EXCEPT ![w] = @ \o <<"operation", "ext_failed">>]
          /\ pc' = [pc EXCEPT ![w] = "done"]
          /\ status' = [status EXCEPT ![w] = 503]
          /\ api_logs' = IF request[w].path = "/api/detect"
                         THEN [api_logs EXCEPT ![h[w].log].status_code = 503]
                         ELSE api_logs
       \/ /\ trail' = [trail EXCEPT ![w] = @ \o <<"operation", "ext_malformed">>]
          /\ IF request[w].path = "/api/humanize"
             THEN /\ pc' = [pc EXCEPT ![w] = "done"]
                  /\ status' = [status EXCEPT ![w] = 500]
             ELSE /\ pc' = [pc EXCEPT ![w] = "account"]
                  /\ UNCHANGED status
          /\ UNCHANGED api_logs
    /\ UNCHANGED <<envVars, remaining, clock, rate_limits, rate_limit_rows,
                   users, usage_stats, request, mwVars, h, calls, overlaps,
                   mwFailed, rowBefore, dbBefore, recorded>>

\* faulty lookup: the day is left out of the filter
StatsOfAnyDay(user, day) ==
    {i \in DOMAIN usage_stats : usage_stats[i].user_id = user}

\* the rows of usage_stats of a user's day
StatsOf(user, day) ==
    {i \in DOMAIN usage_stats :
        usage_stats[i].user_id = user /\ usage_stats[i].day = day}

\* lines 426-443, 498-511, 541-554: processing_time, the refresh of
\* current_user, `today`, and the query of the day's usage_stats row
\* (.first(): one of the matching rows, 0 for None)
AcctQuery(w) ==
    /\ pc[w] = "account"
    /\ LET today == Day(clock)
           found == StatsOf(h[w].user, today)
       IN  \E i \in IF found = {} THEN {0} ELSE found :
              h' = [h EXCEPT ![w] =
                     [@ EXCEPT !.processing_time = clock - h[w].start_time,
                               !.today = today,
                               !.words_used = users[h[w].user].words_used,
                               !.stat = i,
                               !.stat_row = IF i = 0 THEN NoRow
                                            ELSE usage_stats[i]]]
    /\ pc' = [pc EXCEPT ![w] = "acct_commit"]
    /\ trail' = [trail EXCEPT ![w] =
                   IF LocalDetection(w) THEN @ \o <<"local", "operation">>
                   ELSE @]
    /\ UNCHANGED <<envVars, remaining, clock, rate_limits, rate_limit_rows,
                   dbVars, request, mwVars, status, calls, overlaps, mwFailed,
                   rowBefore, dbBefore, extCalls, recorded>>

\* lines 428-461, 500-529, 543-572: the APILog row, words_used (humanize
\* only) and the usage_stats row are written and committed; the response
\* is the 200
AcctCommit(w) ==
    /\ pc[w] = "acct_commit"
    /\ LET kind == Kind(request[w].path)
           l == h[w]
       IN  /\ api_logs' = [api_logs EXCEPT ![l.log].status_code = 200]
           /\ users' = IF kind = "humanize"
                       THEN [users EXCEPT ![l.user].words_used =
                                l.words_used + l.word_count]
                       ELSE users
           /\ usage_stats' =
                 IF l.stat # 0
                 THEN [usage_stats EXCEPT ![l.stat] =
                         UpdatedStat(@, l.stat_row, kind, l.word_count,
                                     l.processing_time)]
                 ELSE Append(usage_stats,
                         NewStat(l.user, l.today, kind, l.word_count,
                                 l.processing_time))
           /\ recorded' = [recorded EXCEPT ![<<l.user, l.today>>] =
                 [@ EXCEPT ![kind] = @ + 1,
                           !.words = @ + l.word_count,
                           !.time = @ + l.processing_time]]
    /\ status' = [status EXCEPT ![w] =
          IF \E i \in DOMAIN trail[w] : trail[w][i] = "ext_malformed"
          THEN 500 ELSE 200]
    /\ pc' = [pc EXCEPT ![w] = "done"]
    /\ trail' = [trail EXCEPT ![w] = Append(@, "account")]
    /\ UNCHANGED <<envVars, remaining, clock, rate_limits, rate_limit_rows,
                   request, mwVars, h, calls, overlaps, mwFailed, rowBefore,
                   dbBefore, extCalls>>

\* simulate_payment (lines 683-707): the active user the token names is
\* set to "Paid"; the transactions table is outside the model, and so is
\* this request's own passage through the limiter
SimulatePayment(user) ==
    /\ CurrentUser(user) # NoToken
    /\ users[user].is_active
    /\ users' = [users EXCEPT ![user].payment_status = "Paid"]
    /\ UNCHANGED <<envVars, remaining, clock, rate_limits, rate_limit_rows,
                   api_logs, usage_stats, pc, request, mwVars, status, h,
                   histVars>>

\* ---- the request pipeline: limiter, handler, accounting ------------------
NextApi ==
    \/ Tick
    \/ \E w \in Workers : MwEnter(w)
    \/ \E w \in Workers : MwQuery(w)
    \/ \E w \in Workers : MwReject(w)
    \/ \E w \in Workers : MwAdmit(w)
    \/ \E w \in Workers : OtherRoute(w)
    \/ \E w \in Workers : HandlerEnter(w)
    \/ \E w \in Workers : External(w)
    \/ \E w \in Workers : AcctQuery(w)
    \/ \E w \in Workers : AcctCommit(w)
    \/ \E w \in Workers : Return(w)

\* one request at a time through the whole pipeline
InitApi ==
    /\ Init
    /\ concurrency = 1 /\ ~faulty /\ remaining = MaxApiCalls
    /\ settings.RATE_LIMIT_REQUESTS = MaxLimit - 1
    /\ settings.RATE_LIMIT_PERIOD = MaxPeriod
    /\ ~settings.detector_configured
SpecApi == InitApi /\ [][NextApi]_vars

\* main.py with an external detector configured, one request at a time
InitExt ==
    /\ Init
    /\ concurrency = 1 /\ ~faulty /\ remaining = MaxShortRun
    /\ settings.RATE_LIMIT_REQUESTS = 1
    /\ settings.RATE_LIMIT_PERIOD = MaxPeriod
    /\ settings.detector_configured
SpecExt == InitExt /\ [][NextApi]_vars

\* main.py served by several processes on one database, right after user
\* u1's first request of the second day has been answered: a /api/detect
\* of one word from ip1 at the day's first tick, admitted, scored locally
\* and accounted
FirstAt == TicksPerDay
InitApiRace ==
    /\ settings = [RATE_LIMIT_REQUESTS |-> MaxLimit - 1,
                   RATE_LIMIT_PERIOD |-> MaxPeriod,
                   detector_configured |-> FALSE]
    /\ concurrency = MaxWorkers /\ faulty = FALSE
    /\ remaining = MaxShortRun
    /\ clock = FirstAt
    /\ rate_limits = [k \in RateKeys |->
                        IF k = "ip1"
                        THEN AdmitRow(NoRow, FirstAt, MaxPeriod) ELSE NoRow]
    /\ rate_limit_rows = [k \in RateKeys |-> IF k = "ip1" THEN 1 ELSE 0]
    /\ users = [u \in UserNames |->
                  IF u = "u1"
                  THEN [payment_status |-> "Paid", plan_id |-> "basic",
                        is_active |-> TRUE, words_used |-> 0]
                  ELSE [payment_status |-> "Pending", plan_id |-> "free",
                        is_active |-> TRUE, words_used |-> 0]]
    /\ api_logs = <<[user_id |-> "u1", endpoint |-> "/api/detect",
                     request_size |-> 1, status_code |-> 200]>>
    /\ usage_stats = <<NewStat("u1", Day(FirstAt), "detect", 1, 0)>>
    /\ pc = [w \in Workers |-> "idle"]
    /\ request = [w \in Workers |-> NoRequest]
    /\ now = [w \in Workers |-> 0]
    /\ rate_limit = [w \in Workers |-> NoRow]
    /\ status = [w \in Workers |-> 0]
    /\ h = [w \in Workers |-> NoLocals]
    /\ calls = [k \in RateKeys |->
                  IF k = "ip1" THEN << <<FirstAt, TRUE>> >> ELSE <<>>]
    /\ overlaps = [k \in RateKeys |-> 0]
    /\ mwFailed = [w \in Workers |-> ""]
    /\ rowBefore = [w \in Workers |-> NoRow]
    /\ trail = [w \in Workers |-> <<>>]
    /\ dbBefore = [w \in Workers |-> <<>>]
    /\ extCalls = 0
    /\ recorded = [ud \in UserNames \X Days |->
                      IF ud = <<"u1", Day(FirstAt)>>
                      THEN [humanize |-> 0, detect |-> 1, words |-> 1,
                            time |-> 0]
                      ELSE [humanize |-> 0, detect |-> 0, words |-> 0,
                            time |-> 0]]
    /\ fn = NoCall
SpecApiRace == InitApiRace /\ [][NextApi]_vars

\* ---- app.py: the same routes, served without a rate limiter -------------
\* the answers of the humanizer service to one POST: a 200 with a result, a
\* 200 whose result is empty, another status, or no answer (timeout,
\* connection error)
Outcomes == {"ok", "empty", "non200", "error"}

\* app.py humanize_text_api lines 686-726 and detect_ai_content_api lines
\* 814-837: a request arrives at the route; authentication, the payment,
\* plan and word-limit checks, the APILog row and its commit, start_time
AppHandlerEnter(w) ==
    /\ pc[w] = "idle"
    /\ \A v \in Workers : v < w => pc[v] # "idle"
    /\ Cardinality(InFlight) < concurrency
    /\ remaining > 0
    /\ remaining' = remaining - 1
    /\ \E path \in ApiPaths, client_ip \in ClientIPs,
          token \in Tokens, text \in Texts :
          LET refused == Refused(path, token, text)
          IN  /\ request' = [request EXCEPT ![w] =
                    [path |-> path, api_key |-> NoHeader,
                     client_ip |-> client_ip]]
              /\ dbBefore' = [dbBefore EXCEPT ![w] =
                    <<users, api_logs, usage_stats, extCalls>>]
              /\ IF refused # 0
                 THEN /\ status' = [status EXCEPT ![w] = refused]
                      /\ pc' = [pc EXCEPT ![w] = "done"]
                      /\ h' = [h EXCEPT ![w] =
                            [NoLocals EXCEPT !.user = CurrentUser(token)]]
                      /\ UNCHANGED api_logs
                 ELSE /\ api_logs' = Append(api_logs,
                            [user_id |-> CurrentUser(token),
                             endpoint |-> path,
                             request_size |-> WordCount(text),
                             status_code |-> 0])
                      /\ h' = [h EXCEPT ![w] =
                            [NoLocals EXCEPT !.user = CurrentUser(token),
                                             !.word_count = WordCount(text),
                                             !.log = Len(api_logs) + 1,
                                             !.start_time = clock]]
                      /\ pc' = [pc EXCEPT ![w] =
                            IF path = "/api/detect" THEN "account"
                            ELSE "app_external"]
                      /\ UNCHANGED status
    /\ UNCHANGED <<envVars, clock, rate_limits, rate_limit_rows, users,
                   usage_stats, mwVars, calls, overlaps, mwFailed, rowBefore,
                   trail, extCalls, recorded>>

\* app.py lines 750-761: the except httpx.HTTPError branch writes the 503
\* into the APILog row, commits and raises the 503
AppUnavailable(w) ==
    /\ pc' = [pc EXCEPT ![w] = "done"]
    /\ status' = [status EXCEPT ![w] = 503]
    /\ api_logs' = [api_logs EXCEPT ![h[w].log].status_code = 503]

\* app.py lines 748-749: the ValueError of an empty result is no
\* httpx.HTTPError; it leaves the handler and is answered as a 500
AppEmptyResult(w) ==
    /\ pc' = [pc EXCEPT ![w] = "done"]
    /\ status' = [status EXCEPT ![w] = 500]
    /\ UNCHANGED api_logs

\* app.py lines 727-735: the POST to /humanize_text; any status other than
\* 200 sends the handler on to the echo endpoint
AppExternal(w) ==
    /\ pc[w] = "app_external"
    /\ extCalls' = extCalls + 1
    /\ \E outcome \in Outcomes :
          /\ trail' = [trail EXCEPT ![w] =
                IF outcome \in {"non200", "error"}
                THEN @ \o <<"operation", "ext_failed">>
                ELSE IF outcome = "empty"
                THEN @ \o <<"operation", "ext_malformed">>
                ELSE Append(@, "operation")]
          /\ CASE outcome = "ok" ->
                    /\ pc' = [pc EXCEPT ![w] = "account"]
                    /\ UNCHANGED <<status, api_logs>>
               [] outcome = "empty" -> AppEmptyResult(w)
               [] outcome = "non200" ->
                    /\ pc' = [pc EXCEPT ![w] = "app_echo"]
                    /\ UNCHANGED <<status, api_logs>>
               [] outcome = "error" -> AppUnavailable(w)
    /\ UNCHANGED <<envVars, remaining, clock, rate_limits, rate_limit_rows,
                   users, usage_stats, request, mwVars, h, calls, overlaps,
                   mwFailed, rowBefore, dbBefore, recorded>>

\* app.py lines 736-749: the POST to /echo_text, then raise_for_status()
AppEcho(w) ==
    /\ pc[w] = "app_echo"
    /\ extCalls' = extCalls + 1
    /\ \E outcome \in Outcomes :
       /\ trail' = [trail EXCEPT ![w] =
             IF outcome = "empty" THEN @ \o <<"operation", "ext_malformed">>
             ELSE Append(@, "operation")]
       /\ CASE outcome = "ok" ->
                  /\ pc' = [pc EXCEPT ![w] = "account"]
                  /\ UNCHANGED <<status, api_logs>>
            [] outcome = "empty" -> AppEmptyResult(w)
            [] outcome \in {"non200", "error"} -> AppUnavailable(w)
    /\ UNCHANGED <<envVars, remaining, clock, rate_limits, rate_limit_rows,
                   users, usage_stats, request, mwVars, h, calls, overlaps,
                   mwFailed, rowBefore, dbBefore, recorded>>

NextApp ==
    \/ Tick
    \/ \E w \in Workers : AppHandlerEnter(w)
    \/ \E w \in Workers : AppExternal(w)
    \/ \E w \in Workers : AppEcho(w)
    \/ \E w \in Workers : AcctQuery(w)
    \/ \E w \in Workers : AcctCommit(w)
    \/ \E w \in Workers : Return(w)
    \/ \E user \in UserNames : SimulatePayment(user)

\* app.py, one request at a time; the limiter's settings are not read and
\* /api/detect never leaves the process
InitApp ==
    /\ Init
    /\ concurrency = 1 /\ ~faulty /\ remaining = MaxApiCalls
    /\ settings.RATE_LIMIT_REQUESTS = MaxLimit
    /\ settings.RATE_LIMIT_PERIOD = MaxPeriod
    /\ ~settings.detector_configured
SpecApp == InitApp /\ [][NextApp]_vars

\* app.py served by several processes on one database: requests overlap
InitAppRace ==
    /\ Init
    /\ concurrency = MaxWorkers /\ ~faulty /\ remaining = MaxShortRun
    /\ settings.RATE_LIMIT_REQUESTS = MaxLimit
    /\ settings.RATE_LIMIT_PERIOD = MaxPeriod
    /\ ~settings.detector_configured
SpecAppRace == InitAppRace /\ [][NextApp]_vars

\* ---- user accounts: POST /users/register and PUT /users/me -------------
\* the plan ids a request may carry: the seeded plans and one that is in no
\* table
PlanInputs == DOMAIN pricing_plans \cup {"gold"}

\* update_user (main.py lines 349-365): every field the request sets is
\* copied onto the user's row; of the fields of schemas.UserUpdate only
\* plan_id is in the model, and it is not compared with pricing_plans
update_user(user, plan_id) ==
    /\ remaining > 0
    /\ remaining' = remaining - 1
    /\ users[user] # NoRow
    /\ users[user].is_active
    /\ users' = [users EXCEPT ![user].plan_id = plan_id]
    /\ UNCHANGED <<envVars, clock, rate_limits, rate_limit_rows, api_logs,
                   usage_stats, pc, request, mwVars, status, h, histVars>>

\* register_user (main.py lines 301-342): a taken username or an unknown
\* plan is answered 400; otherwise the user is created, "Paid" at once on
\* the free plan and "Pending" on any other
register_user(user, plan_id) ==
    /\ remaining > 0
    /\ remaining' = remaining - 1
    /\ IF users[user] # NoRow \/ plan_id \notin DOMAIN pricing_plans
       THEN UNCHANGED users
       ELSE users' = [users EXCEPT ![user] =
               [payment_status |->
                    IF plan_id # "free" THEN "Pending" ELSE "Paid",
                plan_id |-> plan_id, is_active |-> TRUE, words_used |-> 0]]
    /\ UNCHANGED <<envVars, clock, rate_limits, rate_limit_rows, api_logs,
                   usage_stats, pc, request, mwVars, status, h, histVars>>

NextUsers ==
    \/ \E user \in UserNames, plan_id \in PlanInputs :
          register_user(user, plan_id)
    \/ \E user \in UserNames, plan_id \in PlanInputs :
          update_user(user, plan_id)

\* the server after startup, before anyone has registered: no payment is
\* made and no admin acts
InitUsers ==
    /\ settings = [RATE_LIMIT_REQUESTS |-> MaxLimit,
                   RATE_LIMIT_PERIOD |-> MaxPeriod,
                   detector_configured |-> FALSE]
    /\ concurrency = 1 /\ faulty = FALSE /\ remaining = MaxCalls
    /\ clock = 0
    /\ rate_limits = [k \in RateKeys |-> NoRow]
    /\ rate_limit_rows = [k \in RateKeys |-> 0]
    /\ users = [u \in UserNames |-> NoRow]
    /\ api_logs = <<>>
    /\ usage_stats = <<>>
    /\ pc = [w \in Workers |-> "idle"]
    /\ request = [w \in Workers |-> NoRequest]
    /\ now = [w \in Workers |-> 0]
    /\ rate_limit = [w \in Workers |-> NoRow]
    /\ status = [w \in Workers |-> 0]
    /\ h = [w \in Workers |-> NoLocals]
    /\ calls = [k \in RateKeys |-> <<>>]
    /\ overlaps = [k \in RateKeys |-> 0]
    /\ mwFailed = [w \in Workers |-> ""]
    /\ rowBefore = [w \in Workers |-> NoRow]
    /\ trail = [w \in Workers |-> <<>>]
    /\ dbBefore = [w \in Workers |-> <<>>]
    /\ extCalls = 0
    /\ recorded = [ud \in UserNames \X Days |->
                      [humanize |-> 0, detect |-> 0, words |-> 0, time |-> 0]]
    /\ fn = NoCall
SpecUsers == InitUsers /\ [][NextUsers]_vars

\* ---- the rate limiter on its own ----------------------------------------
NextLimiter ==
    \/ Tick
    \/ \E w \in Workers : MwEnter(w)
    \/ \E w \in Workers : MwQuery(w)
    \/ \E w \in Workers : MwReject(w)
    \/ \E w \in Workers : MwAdmit(w)
    \/ \E w \in Workers : CallNext(w)
    \/ \E w \in Workers : Return(w)

\* one request at a time, on a store that does not fail
InitSeq ==
    /\ Init
    /\ concurrency = 1 /\ ~faulty /\ remaining = MaxCalls
    /\ ~settings.detector_configured
SpecSeq == InitSeq /\ [][NextLimiter]_vars

\* one request at a time, on a store whose operations may raise
InitFault ==
    /\ Init
    /\ concurrency = 1 /\ faulty /\ remaining = MaxApiCalls
    /\ ~settings.detector_configured
SpecFault == InitFault /\ [][NextLimiter]_vars

\* requests of several workers interleave, on a store that does not fail
InitRace ==
    /\ Init
    /\ concurrency = MaxWorkers /\ ~faulty /\ remaining = MaxApiCalls
    /\ settings.RATE_LIMIT_REQUESTS < MaxLimit
    /\ settings.RATE_LIMIT_PERIOD > 1
    /\ ~settings.detector_configured
SpecRace == InitRace /\ [][NextLimiter]_vars

\* two requests that may interleave, on a store that does not fail
InitShortRace ==
    /\ Init
    /\ concurrency = MaxWorkers /\ ~faulty /\ remaining = MaxShortRun
    /\ ~settings.detector_configured
SpecShortRace == InitShortRace /\ [][NextLimiter]_vars

\* ---- the pruning of a timestamp list, applied on its own ----------------
MaxLen == 3
TimeLists == UNION {[1..n -> Times] : n \in 0..MaxLen}

ApplyPrune ==
    /\ fn.op = "prune"
    /\ ~fn.done
    /\ fn' = [fn EXCEPT !.result = Prune(fn.requests, fn.now, fn.period),
                        !.done = TRUE]
    /\ UNCHANGED <<settings, concurrency, faulty, remaining, clock,
                   rate_limits, rate_limit_rows, dbVars, pc, request, mwVars,
                   status, h, histVars>>

InitPrune ==
    /\ InitSystem
    /\ concurrency = 1 /\ ~faulty /\ remaining = MaxCalls
    /\ settings = [RATE_LIMIT_REQUESTS |-> 1, RATE_LIMIT_PERIOD |-> 1,
                   detector_configured |-> FALSE]
    /\ fn \in [op : {"prune"}, requests : TimeLists, now : Times,
               period : 1..MaxPeriod, result : {<<>>}, done : {FALSE}]
SpecPrune == InitPrune /\ [][ApplyPrune]_vars

TypeOK ==
    /\ clock \in Times
    /\ remaining \in 0..MaxCalls
    /\ \A w \in Workers : now[w] \in Times

\* ---- the local detectors, applied on their own ---------------------------
\* A text is a sequence of pieces: single characters and whole words whose
\* letters are not looked into. Scores are kept in hundredths of a point.
MaxPhrases == 4
MaxWordLen == 20
Hundred == 10000
Pieces == {"x", "long", " ", ".", "Thus", ",", "hence"}
Phrases == {<<"x">>, <<"x", ".">>, <<"x", ".", " ">>, <<"long">>,
            <<"Thus", ",", " ">>, <<" ">>, <<".">>, <<"hence">>}

\* the number of characters of a piece
CharLen(c) ==
    CASE c = "long" -> MaxWordLen
      [] c = "Thus" -> 4
      [] c = "hence" -> 5
      [] OTHER -> 1
\* str.lower() on a piece
Lower(c) == IF c = "Thus" THEN "thus" ELSE c
\* what str.split() and str.strip() treat as whitespace
IsSpace(c) == c = " "

RECURSIVE Concat(_)
Concat(ps) == IF ps = <<>> THEN <<>> ELSE Head(ps) \o Concat(Tail(ps))
DetectTexts ==
    {Concat(ps) : ps \in UNION {[1..n -> Phrases] : n \in 0..MaxPhrases}}

Min2(a, b) == IF a < b THEN a ELSE b
Max2(a, b) == IF a > b THEN a ELSE b

\* len(s)
RECURSIVE TextLen(_)
TextLen(s) == IF s = <<>> THEN 0 ELSE CharLen(Head(s)) + TextLen(Tail(s))

\* s.strip()
Strip(s) ==
    LET solid == {i \in DOMAIN s : ~IsSpace(s[i])}
    IN  IF solid = {} THEN <<>>
        ELSE SubSeq(s, CHOOSE i \in solid : \A j \in solid : i <= j,
                       CHOOSE i \in solid : \A j \in solid : i >= j)

\* text.split("."): the fragments between the dots, empty ones included
RECURSIVE SplitDots(_)
SplitDots(t) ==
    IF t = <<>> THEN << <<>> >>
    ELSE LET rest == SplitDots(Tail(t))
         IN  IF Head(t) = "." THEN << <<>> >> \o rest
             ELSE << <<Head(t)>> \o Head(rest) >> \o Tail(rest)

\* the characters the lookbehind of utils.py's split pattern accepts
Punctuation == {".", "!", "?"}

RECURSIVE DropSpaces(_)
DropSpaces(t) ==
    IF t # <<>> /\ IsSpace(Head(t)) THEN DropSpaces(Tail(t)) ELSE t

\* re.split(r'(?<=[.!?])\s+', text): cut at every run of whitespace that
\* follows a punctuation character; prev is the character before t
RECURSIVE SplitSentences(_, _)
SplitSentences(t, prev) ==
    IF t = <<>> THEN << <<>> >>
    ELSE IF IsSpace(Head(t)) /\ prev \in Punctuation
    THEN << <<>> >> \o SplitSentences(DropSpaces(t), " ")
    ELSE LET rest == SplitSentences(Tail(t), Head(t))
         IN  << <<Head(t)>> \o Head(rest) >> \o Tail(rest)

\* sentence.split()[0].lower() if sentence.split() else ""
RECURSIVE FirstWord(_)
FirstWord(s) ==
    LET t == DropSpaces(s)
    IN  IF t = <<>> \/ IsSpace(Head(t)) THEN <<>>
        ELSE IF Len(t) = 1 \/ IsSpace(t[2]) THEN <<Lower(Head(t))>>
        ELSE <<Lower(Head(t))>> \o FirstWord(Tail(t))

\* the integer square root of v, which is at most hi
Isqrt(v, hi) == CHOOSE r \in 0..hi : r * r <= v /\ v < (r + 1) * (r + 1)

RECURSIVE SeqSum(_)
SeqSum(q) == IF q = <<>> THEN 0 ELSE Head(q) + SeqSum(Tail(q))

\* length_uniformity = std_dev / mean_length of the sentence lengths
\* (population standard deviation), 0 without sentences; in hundredths,
\* rounded down: std/mean = sqrt(n * sum(l^2) - sum(l)^2) / sum(l)
LengthUniformity(lengths) ==
    LET n == Len(lengths)
        total == SeqSum(lengths)
        squares == SeqSum([i \in DOMAIN lengths |-> lengths[i] * lengths[i]])
    IN  IF n = 0 \/ total = 0 THEN 0
        ELSE Isqrt((Hundred * (n * squares - total * total))
                      \div (total * total), 100 * n)

\* round(x, 1): to the nearest tenth of a point, a tie to the even tenth
Round1(x) ==
    LET q == x \div 10
        r == x % 10
    IN  10 * (IF r > 5 \/ (r = 5 /\ q % 2 = 1) THEN q + 1 ELSE q)

\* faulty clamp: the lower limit is missing
ClampAbove(x) == Min2(Hundred, x)

\* min(100, max(0, x))
Clamp(x) == Min2(Hundred, Max2(0, x))

\* app.py lines 840-842: the formal indicators and their count in the
\* lower-cased text
formal_indicators ==
    {"furthermore", "additionally", "moreover", "thus", "therefore",
     "consequently", "hence", "as a result", "in conclusion"}
\* faulty count: the number of indicators that occur, each counted once
AppIndicatorCountDistinct(text) ==
    Cardinality({Lower(text[i]) : i \in DOMAIN text} \cap formal_indicators)

AppIndicatorCount(text) ==
    Cardinality({i \in DOMAIN text : Lower(text[i]) \in formal_indicators})

\* app.py lines 845-851: the lengths of the stripped, non-blank fragments
AppSentenceLengths(text) ==
    LET frags == SplitDots(text)
    IN  SelectSeq([i \in DOMAIN frags |-> TextLen(Strip(frags[i]))],
                  LAMBDA l : l > 0)

\* faulty score: the base of 20 points is missing
AppAiScoreNoBase(indicator_count, length_uniformity) ==
    Clamp(500 * indicator_count + 50 * (100 - length_uniformity))

\* app.py line 854
AppAiScore(indicator_count, length_uniformity) ==
    Clamp(2000 + 500 * indicator_count + 50 * (100 - length_uniformity))

\* app.py lines 840-898: the detection /api/detect of app.py returns
AppDetect(text) ==
    LET indicator_count == AppIndicatorCount(text)
        length_uniformity == LengthUniformity(AppSentenceLengths(text))
        ai_score == AppAiScore(indicator_count, length_uniformity)
    IN  [ai_score |-> Round1(ai_score),
         human_score |-> Round1(Hundred - ai_score),
         formal_language |-> Min2(Hundred, indicator_count * 1000),
         sentence_uniformity |-> Min2(Hundred, (100 - length_uniformity) * 100),
         repetitive_patterns |-> Min2(Hundred, ai_score \div 2)]

\* utils.py lines 55-62: every indicator ends in a comma
ai_indicators ==
    {"furthermore", "additionally", "moreover", "thus", "therefore",
     "consequently", "hence", "as a result", "in conclusion",
     "to summarize", "in summary", "in essence"}
UtilsIndicatorCount(text) ==
    Cardinality({i \in DOMAIN text :
        /\ Lower(text[i]) \in ai_indicators
        /\ i < Len(text) /\ text[i + 1] = ","})

\* utils.py lines 65-67
RepeatedStarts(text) ==
    LET sentences == SplitSentences(text, "")
    IN  Len(sentences)
          - Cardinality({FirstWord(sentences[i]) : i \in DOMAIN sentences})

\* utils.py line 70
UtilsSentenceLengths(text) ==
    LET sentences == SplitSentences(text, "")
    IN  SelectSeq([i \in DOMAIN sentences |-> TextLen(sentences[i])],
                  LAMBDA l : l > 0)

\* random.uniform(0.85, 1.15), in percent
Jitters == {85, 100, 115}

\* utils.py lines 43-95: detect_ai_content, given the value random.uniform
\* returned
detect_ai_content(text, randomizer) ==
    LET indicator_count == UtilsIndicatorCount(text)
        repeated_starts == RepeatedStarts(text)
        length_uniformity == LengthUniformity(UtilsSentenceLengths(text))
        base_score == Min2(Hundred, indicator_count * 1000
                                      + repeated_starts * 500
                                      + (Hundred - length_uniformity * 100))
        ai_score == Clamp((base_score * randomizer) \div 100)
    IN  [ai_score |-> Round1(ai_score),
         human_score |-> Round1(Hundred - ai_score),
         formal_language |-> Min2(Hundred, indicator_count * 1500),
         sentence_uniformity |-> Min2(Hundred, (100 - length_uniformity) * 100),
         repetitive_patterns |-> Min2(Hundred, repeated_starts * 2000)]

\* a detector is called twice on one text: app.py's, or utils.py's, which
\* main.py calls when no external detector is configured
ApplyDetect ==
    /\ fn.op = "detect"
    /\ Len(fn.results) < 2
    /\ \E randomizer \in Jitters :
          fn' = [fn EXCEPT !.results = Append(@,
                    IF fn.impl = "app" THEN AppDetect(fn.text)
                    ELSE detect_ai_content(fn.text, randomizer))]
    /\ UNCHANGED <<settings, concurrency, faulty, remaining, clock,
                   rate_limits, rate_limit_rows, dbVars, pc, request, mwVars,
                   status, h, histVars>>

InitDetect ==
    /\ InitSystem
    /\ concurrency = 1 /\ ~faulty /\ remaining = MaxCalls
    /\ settings = [RATE_LIMIT_REQUESTS |-> 1, RATE_LIMIT_PERIOD |-> 1,
                   detector_configured |-> FALSE]
    /\ fn \in [op : {"detect"}, impl : {"app", "utils"}, text : DetectTexts,
               results : {<<>>}]
SpecDetect == InitDetect /\ [][ApplyDetect]_vars

\* ---- properties of the rate limiter -------------------------------------
Limit == settings.RATE_LIMIT_REQUESTS
Period == settings.RATE_LIMIT_PERIOD

\* the worker's request has passed the limiter's decision
Decided(w) ==
    pc[w] \in {"call_next", "done"} /\ ~ExemptPath(request[w].path)

\* number of timestamps of a stored row that lie within the period before t
StoredInWindow(row, t) ==
    IF row = NoRow THEN 0
    ELSE Cardinality({i \in DOMAIN row.requests : t - row.requests[i] < Period})

\* number of admitted calls among the first n of key k within the period before t
AdmittedInWindow(k, n, t) ==
    Cardinality({j \in 1..n : calls[k][j][2] /\ t - calls[k][j][1] < Period})

\* C1: sliding window bound. With one request at a time, a clock that never
\* goes back and a store that does not fail, at every call of a key the
\* number of admitted calls of that key whose timestamp t satisfies
\* now - t < RATE_LIMIT_PERIOD (the call itself included when admitted) is at
\* most RATE_LIMIT_REQUESTS.
SlidingWindowBound ==
    \A k \in RateKeys : \A i \in DOMAIN calls[k] :
        AdmittedInWindow(k, i, calls[k][i][1]) <= Limit

\* a call was rejected with exactly RATE_LIMIT_REQUESTS (at least 2) admitted
\* calls inside its window
SlidingWindowFull ==
    \E k \in RateKeys : \E i \in DOMAIN calls[k] :
        /\ ~calls[k][i][2]
        /\ Limit >= 2
        /\ AdmittedInWindow(k, i, calls[k][i][1]) = Limit

\* the calls of the scenario (limit 3, a period longer than 3) and their answers
ScenarioTimes == <<0, 1, 2, 3, Period + 1>>
ScenarioAdmits == <<TRUE, TRUE, TRUE, FALSE, TRUE>>
FollowsScenario(k, n) ==
    /\ Len(calls[k]) = n
    /\ \A i \in 1..n : calls[k][i][1] = ScenarioTimes[i]

\* C2: admission is exact. A call at `now` is admitted if and only if fewer
\* than RATE_LIMIT_REQUESTS timestamps stored for its key satisfy
\* now - t < RATE_LIMIT_PERIOD; and with a limit of 3 and a period longer
\* than 3, calls at 0, 1, 2 are admitted, a call at 3 is rejected and a call
\* one tick after the period has passed is admitted.
AdmissionExact ==
    /\ \A w \in Workers :
          Decided(w) =>
             ((status[w] # 429) <=> StoredInWindow(rowBefore[w], now[w]) < Limit)
    /\ (Limit = 3 /\ Period > 3) =>
          \A k \in RateKeys : \A n \in 1..5 :
             FollowsScenario(k, n) =>
                \A i \in 1..n : calls[k][i][2] = ScenarioAdmits[i]

\* the whole scenario has been played on one key
ScenarioPlayed ==
    /\ Limit = 3 /\ Period > 3
    /\ \E k \in RateKeys :
          /\ FollowsScenario(k, 5)
          /\ \A i \in 1..5 : calls[k][i][2] = ScenarioAdmits[i]

\* C3: pruning correctness. For every timestamp list and every `now`, the
\* pruned list holds all and only the entries t with
\* now - t < RATE_LIMIT_PERIOD (an entry exactly one period old is removed),
\* in their original relative order.
PruningCorrect ==
    (fn.op = "prune" /\ fn.done) =>
        LET kept == {i \in DOMAIN fn.requests :
                        fn.now - fn.requests[i] < fn.period}
            nth(j) == CHOOSE i \in kept :
                        Cardinality({m \in kept : m < i}) = j - 1
        IN  /\ Len(fn.result) = Cardinality(kept)
            /\ \A j \in 1..Len(fn.result) : fn.result[j] = fn.requests[nth(j)]

\* an unsorted list was pruned of an entry exactly one period old, with two
\* entries surviving
PrunedAtBoundary ==
    /\ fn.op = "prune" /\ fn.done
    /\ \E i \in DOMAIN fn.requests : fn.now - fn.requests[i] = fn.period
    /\ \E i, j \in DOMAIN fn.requests : i < j /\ fn.requests[i] > fn.requests[j]
    /\ Len(fn.result) = 2

\* C4: fail-open. When obtaining the session, the query or the commit of
\* the rate limiter raises, the request is still passed to the handler: it
\* is not answered 429 and not answered with the limiter's error.
FailOpenHolds ==
    \A w \in Workers :
        mwFailed[w] # "" =>
            /\ pc[w] \in {"call_next", "done"}
            /\ status[w] = IF pc[w] = "done" THEN 200 ELSE 0

\* a request whose commit raised has been answered by the handler
FailedCommitAnswered ==
    \E w \in Workers :
        mwFailed[w] = "commit" /\ pc[w] = "done" /\ status[w] = 200

\* C5: the reject path leaves the store alone. After a call was answered
\* 429 the row of its key (timestamp list and last_updated) is the row it
\* was before the call.
RejectLeavesStore ==
    \A w \in Workers :
        (pc[w] = "done" /\ status[w] = 429) =>
            rate_limits[KeyOf(w)] = rowBefore[w]

\* a call has been answered 429
SomeCallRejected ==
    \E w \in Workers :
        pc[w] = "done" /\ status[w] = 429 /\ rowBefore[w] # NoRow

\* C6: the admit path. After a call was admitted the row of its key holds
\* the prior list without the entries that left the window, followed by
\* `now`, and last_updated = now; for a key without a row that is the list
\* <<now>>.
AdmitPersists ==
    \A w \in Workers :
        (Decided(w) /\ status[w] # 429) =>
            LET row == rate_limits[KeyOf(w)]
                prior == IF rowBefore[w] = NoRow THEN <<>>
                         ELSE rowBefore[w].requests
            IN  /\ row # NoRow
                /\ row.last_updated = now[w]
                /\ row.requests =
                      SelectSeq(prior, LAMBDA t : now[w] - t < Period)
                         \o <<now[w]>>

\* a call was admitted for a key whose row lost an entry to the pruning
AdmittedAfterPruning ==
    \E w \in Workers :
        /\ Decided(w) /\ status[w] # 429
        /\ rowBefore[w] # NoRow
        /\ Len(rate_limits[KeyOf(w)].requests) <= Len(rowBefore[w].requests)

\* C7: right after a call was admitted, the stored list of its key is at
\* most RATE_LIMIT_REQUESTS long (store failures included: a call admitted
\* by the except branch leaves the list as it was).
AdmittedListBounded ==
    \A w \in Workers :
        (Decided(w) /\ status[w] # 429 /\ rate_limits[KeyOf(w)] # NoRow) =>
            Len(rate_limits[KeyOf(w)].requests) <= Limit

\* a call was admitted and stored, and the list is RATE_LIMIT_REQUESTS long
AdmittedListFull ==
    \E w \in Workers :
        /\ Decided(w) /\ status[w] # 429 /\ mwFailed[w] = ""
        /\ Limit >= 2
        /\ rate_limits[KeyOf(w)] # NoRow
        /\ Len(rate_limits[KeyOf(w)].requests) = Limit

\* number of admitted calls of key k with a timestamp in the window (a - Period, a]
AdmittedWithin(k, a) ==
    Cardinality({j \in DOMAIN calls[k] :
        calls[k][j][2] /\ a - Period < calls[k][j][1] /\ calls[k][j][1] <= a})

\* C8: over-admission under interleaving. In any window of one period the
\* admitted calls of a key exceed RATE_LIMIT_REQUESTS by at most the number
\* of pairs of calls of that key that raced (the one entered the limiter
\* while the other was between taking `now` and writing the row).
OverAdmissionBound ==
    \A k \in RateKeys : \A a \in Times :
        AdmittedWithin(k, a) <= Limit + overlaps[k]

\* two calls that both read RATE_LIMIT_REQUESTS - 1 timestamps in the window
\* were both admitted, one more than the limit
RaceBothAdmitted ==
    \E v, w \in Workers :
        /\ v # w /\ Decided(v) /\ Decided(w)
        /\ status[v] # 429 /\ status[w] # 429
        /\ KeyOf(v) = KeyOf(w)
        /\ StoredInWindow(rate_limit[v], now[v]) = Limit - 1
        /\ StoredInWindow(rate_limit[w], now[w]) = Limit - 1
        /\ overlaps[KeyOf(w)] = 1
        /\ \E a \in Times : AdmittedWithin(KeyOf(w), a) = Limit + 1

\* the stages of request w's passage, in the order they happened
Stage(w, name) == {i \in DOMAIN trail[w] : trail[w][i] = name}

\* C9: a request passes the rate limiter, then the business operation, then
\* the accounting, in this order; a request the limiter rejects ends there
\* with its 429: no external call is made, and no usage_stats row, api_logs
\* row or words_used value differs from what it was when the request came in.
RejectedStopsAtLimiter ==
    \A w \in Workers :
        /\ \A i \in Stage(w, "limit") :
              \A j \in Stage(w, "operation") \cup Stage(w, "account") : i < j
        /\ \A i \in Stage(w, "operation") : \A j \in Stage(w, "account") : i < j
        /\ Stage(w, "account") # {} => Stage(w, "operation") # {}
        /\ Stage(w, "operation") # {} => Stage(w, "limit") # {}
        /\ Stage(w, "rejected") # {} =>
              /\ trail[w] = <<"limit", "rejected">>
              /\ pc[w] = "done" /\ status[w] = 429
              /\ dbBefore[w] = <<users, api_logs, usage_stats, extCalls>>

\* a request is rejected after earlier ones were served and accounted
RejectedAfterAccounted ==
    \E w \in Workers :
        /\ status[w] = 429 /\ pc[w] = "done"
        /\ request[w].path \in ApiPaths
        /\ Len(usage_stats) > 0 /\ Len(api_logs) = 2 /\ extCalls > 0

\* the rows of usage_stats of a user's day hold the given totals
DayTotals(user, day) ==
    LET r == recorded[<<user, day>>]
    IN  IF r.humanize + r.detect = 0
        THEN StatsOf(user, day) = {}
        ELSE /\ StatsOf(user, day) # {}
             /\ \A i \in StatsOf(user, day) :
                   /\ usage_stats[i].words_processed = r.words
                   /\ usage_stats[i].total_processing_time = r.time
                   /\ usage_stats[i].humanize_requests = r.humanize
                   /\ usage_stats[i].detect_requests = r.detect
                   /\ usage_stats[i].humanize_requests
                        + usage_stats[i].detect_requests
                        = r.humanize + r.detect

\* C10: after N successful operations of one user on one day, one after the
\* other, the day's usage_stats row holds words_processed = the sum of their
\* word counts, total_processing_time = the sum of their processing times,
\* and humanize_requests + detect_requests = N, each operation counted once
\* under its kind.
AccountingAdditive ==
    \A user \in UserNames, day \in Days : DayTotals(user, day)

\* three operations of both kinds and different sizes were accounted on one day
ThreeAccounted ==
    \E user \in UserNames, day \in Days :
        LET r == recorded[<<user, day>>]
        IN  /\ r.humanize >= 1 /\ r.detect >= 1
            /\ r.humanize + r.detect = 3
            /\ r.words = 5 /\ r.time >= 2
            /\ \E i \in StatsOf(user, day) : usage_stats[i].words_processed = 5

\* the rows of table t that belong to a user's day
RowsOf(t, user, day) ==
    {i \in DOMAIN t : t[i].user_id = user /\ t[i].day = day}

\* C11: accounting partition. A step that records an operation for one
\* user and day leaves every usage_stats row of any other day of that user
\* and every row of any other user as it was, and adds no row to them.
AccountingPartition ==
    [][\A user \in UserNames, day \in Days :
          recorded'[<<user, day>>] = recorded[<<user, day>>] =>
             /\ RowsOf(usage_stats', user, day) = RowsOf(usage_stats, user, day)
             /\ \A i \in RowsOf(usage_stats, user, day) :
                   usage_stats'[i] = usage_stats[i]]_vars

\* operations were recorded for two days of one user and for another user
ThreePartitions ==
    \E user, other \in UserNames : \E day, later \in Days :
        /\ user # other /\ day < later
        /\ RowsOf(usage_stats, user, day) # {}
        /\ RowsOf(usage_stats, user, later) # {}
        /\ \E d \in Days : RowsOf(usage_stats, other, d) # {}

\* C12: one usage_stats row per user and day. In every reachable state
\* there is at most one row per (user_id, year, month, day), and exactly one
\* once an operation has been recorded for that user and day, also when the
\* lookups and inserts of two first requests of a day interleave.
OneStatPerDay ==
    \A user \in UserNames, day \in Days :
        /\ Cardinality(RowsOf(usage_stats, user, day)) <= 1
        /\ recorded[<<user, day>>].humanize + recorded[<<user, day>>].detect > 0
              => Cardinality(RowsOf(usage_stats, user, day)) = 1

\* C13: when the external humanize or detect call fails the request ends
\* in a 503 without accounting: usage_stats and users (words_used) are as
\* they were when the request arrived, and the api_logs row the handler
\* committed before the call is still there.
FailedCallNotAccounted ==
    \A w \in Workers :
        Stage(w, "ext_failed") # {} =>
            /\ pc[w] = "done" /\ status[w] = 503
            /\ Stage(w, "account") = {}
            /\ usage_stats = dbBefore[w][3]
            /\ users = dbBefore[w][1]
            /\ Len(api_logs) = Len(dbBefore[w][2]) + 1
            /\ h[w].log = Len(api_logs)
            /\ api_logs[h[w].log].user_id = h[w].user
            /\ api_logs[h[w].log].endpoint = request[w].path
            /\ api_logs[h[w].log].request_size = h[w].word_count

\* a detect call failed after an earlier operation had been accounted
FailedAfterAccounted ==
    \E w \in Workers :
        /\ Stage(w, "ext_failed") # {}
        /\ request[w].path = "/api/detect"
        /\ api_logs[h[w].log].status_code = 503
        /\ Len(usage_stats) = 1 /\ users["u1"].words_used > 0

\* the results a detector has returned so far
Detected == {fn.results[i] : i \in DOMAIN fn.results}

\* C14: heuristic bounds. Every result of a local detector has
\* 0 <= ai_score <= 100 and 0 <= human_score <= 100, and the two are the
\* roundings to one decimal of one score a in [0, 100] and of 100 - a.
ScoreBounds ==
    fn.op = "detect" =>
        \A r \in Detected :
            /\ 0 <= r.ai_score /\ r.ai_score <= Hundred
            /\ 0 <= r.human_score /\ r.human_score <= Hundred
            /\ \E a \in (r.ai_score - 5)..(r.ai_score + 5) :
                  /\ 0 <= a /\ a <= Hundred
                  /\ r.ai_score = Round1(a)
                  /\ r.human_score = Round1(Hundred - a)

\* app.py's detector returned the lowest score for sentences of very
\* unequal length, where the unclamped score is below 0
LowestScoreReturned ==
    /\ fn.op = "detect" /\ fn.impl = "app"
    /\ \E r \in Detected :
          /\ r.ai_score = 0 /\ r.human_score = Hundred
          /\ r.sentence_uniformity < -4000

\* C15: every value of `analysis` (formal_language, sentence_uniformity,
\* repetitive_patterns) lies in [0, 100], for every text.
AnalysisInRange ==
    fn.op = "detect" =>
        \A r \in Detected :
            /\ 0 <= r.formal_language /\ r.formal_language <= Hundred
            /\ 0 <= r.sentence_uniformity /\ r.sentence_uniformity <= Hundred
            /\ 0 <= r.repetitive_patterns /\ r.repetitive_patterns <= Hundred

\* C16: heuristic determinism. Two calls of the local detector that
\* /api/detect uses, on the same text, return the same ai_score,
\* human_score and analysis.
DetectionDeterministic ==
    (fn.op = "detect" /\ Len(fn.results) = 2) =>
        fn.results[1] = fn.results[2]

\* C17: for a text of nothing but whitespace and '.' characters (the empty
\* text included) app.py's detector returns ai_score 70.0, human_score
\* 30.0, formal_language 0, sentence_uniformity 100 and
\* repetitive_patterns 35.
BlankTextScores ==
    (/\ fn.op = "detect" /\ fn.impl = "app"
     /\ \A i \in DOMAIN fn.text : fn.text[i] \in {" ", "."}) =>
        \A r \in Detected :
            r = [ai_score |-> 7000, human_score |-> 3000,
                 formal_language |-> 0, sentence_uniformity |-> Hundred,
                 repetitive_patterns |-> 3500]

\* a text of dots and blanks has been scored
BlankTextScored ==
    /\ fn.op = "detect" /\ fn.impl = "app"
    /\ Len(fn.text) = MaxPhrases
    /\ \E i, j \in DOMAIN fn.text : fn.text[i] = " " /\ fn.text[j] = "."
    /\ \A i \in DOMAIN fn.text : fn.text[i] \in {" ", "."}
    /\ Len(fn.results) = 2

\* the handler of w's request got past its checks and logged the request
Handled(w) == pc[w] = "done" /\ h[w].log # 0

\* C18: whenever the external detector is unconfigured or unreachable,
\* /api/detect answers with the local heuristic score and does not fail.
DetectFallsBack ==
    \A w \in Workers :
        (/\ Handled(w) /\ request[w].path = "/api/detect"
         /\ \/ ~settings.detector_configured
            \/ Stage(w, "ext_failed") # {}) =>
            status[w] = 200 /\ Stage(w, "local") # {}

\* C19: a humanize request whose external call timed out or returned a
\* non-success status is answered 503: it is never answered as a success,
\* and the handler makes no second external call for it.
UnavailableSurfaced ==
    \A w \in Workers :
        (request[w].path = "/api/humanize" /\ Stage(w, "ext_failed") # {}) =>
            /\ Cardinality(Stage(w, "operation")) = 1
            /\ pc[w] = "done" => status[w] = 503

\* C20 as stated: once the limiter has admitted a request and the handler
\* has run, the accountant has recorded the operation, whether the external
\* call succeeded or failed.
RecordedRegardless ==
    \A w \in Workers : Handled(w) => Stage(w, "account") # {}

\* C20, amended: once the limiter has admitted a request and the handler
\* has passed its checks, the accountant has recorded the operation exactly
\* once if the request was served (no external call was needed, or the
\* external service answered with a success status and a readable body),
\* and has recorded nothing if the external call failed and the request is
\* answered 503.
RecordedUnlessFailed ==
    \A w \in Workers :
        Handled(w) =>
            /\ (Stage(w, "ext_failed") = {} /\ Stage(w, "ext_malformed") = {})
                  => status[w] = 200
            /\ status[w] = 200 =>
                  /\ Cardinality(Stage(w, "account")) = 1
                  /\ usage_stats # dbBefore[w][3]
            /\ status[w] = 503 =>
                  /\ Stage(w, "ext_failed") # {}
                  /\ Stage(w, "account") = {}
                  /\ usage_stats = dbBefore[w][3]

\* an operation was recorded after the external call of an earlier request
\* had failed
RecordedAfterFailure ==
    \E w \in Workers :
        /\ Handled(w) /\ Stage(w, "ext_failed") = {}
        /\ Stage(w, "account") # {} /\ Stage(w, "local") = {}
        /\ Len(api_logs) = 2 /\ Len(usage_stats) = 1
        /\ api_logs[1].status_code = 503

\* the counter of a usage_stats row that counts operations of a kind
Counter(row, kind) ==
    IF kind = "humanize" THEN row.humanize_requests ELSE row.detect_requests
OtherKind(kind) == IF kind = "humanize" THEN "detect" ELSE "humanize"

\* C21: every step that records an operation adds exactly 1 to the counter
\* of its own kind, leaves the counter of the other kind as it was and adds
\* its word count to words_processed, whatever the kinds recorded before;
\* the first operation of a day creates the row with the counter of the
\* other kind at 0.
KindCounted ==
    [][\A user \in UserNames, day \in Days :
          recorded'[<<user, day>>] # recorded[<<user, day>>] =>
             LET before == recorded[<<user, day>>]
                 after == recorded'[<<user, day>>]
                 kind == IF after.humanize # before.humanize
                         THEN "humanize" ELSE "detect"
                 word_count == after.words - before.words
                 old == RowsOf(usage_stats, user, day)
                 new == RowsOf(usage_stats', user, day)
             IN  IF old = {}
                 THEN /\ Cardinality(new) = 1
                      /\ \A i \in new :
                            /\ Counter(usage_stats'[i], kind) = 1
                            /\ Counter(usage_stats'[i], OtherKind(kind)) = 0
                            /\ usage_stats'[i].words_processed = word_count
                 ELSE /\ new = old
                      /\ \A i \in old :
                            /\ Counter(usage_stats'[i], kind)
                                  = Counter(usage_stats[i], kind) + 1
                            /\ Counter(usage_stats'[i], OtherKind(kind))
                                  = Counter(usage_stats[i], OtherKind(kind))
                            /\ usage_stats'[i].words_processed
                                  = usage_stats[i].words_processed + word_count]_vars

\* a humanize of 1 word and a detect of 3 words of one user's day are in
\* one row: one request of each kind, 4 words
OneOfEachKind ==
    \E i \in DOMAIN usage_stats :
        /\ usage_stats[i].humanize_requests = 1
        /\ usage_stats[i].detect_requests = 1
        /\ usage_stats[i].words_processed = 4
        /\ Len(usage_stats) = 1 /\ Len(api_logs) = 2

\* the statuses a handler or the error handler answers a failed request with
FailureStatuses == {400, 401, 402, 500, 503}

\* C22: a rate-limit slot is never given back. While and after the handler
\* of an admitted request runs, also when it ends in a 401, 402, 400 or
\* 503, the key's row is the one the limiter wrote: the prior timestamps
\* still inside the window followed by the request's own `now`.
SlotKept ==
    \A w \in Workers :
        (/\ Stage(w, "limit") # {} /\ Stage(w, "rejected") = {}
         /\ pc[w] = "done" => status[w] \in FailureStatuses \cup {200}) =>
            /\ rate_limits[KeyOf(w)] # NoRow
            /\ rate_limits[KeyOf(w)] =
                  AdmitRow(rowBefore[w], now[w], Period)
            /\ rate_limits[KeyOf(w)].requests[
                  Len(rate_limits[KeyOf(w)].requests)] = now[w]

\* the slot of a request that ended in a 503 is still in the key's row and
\* has made the limiter reject the next request of the key
FailedSlotCounted ==
    \E w \in Workers :
        /\ pc[w] = "done" /\ status[w] = 429
        /\ Len(calls[KeyOf(w)]) = 2 /\ calls[KeyOf(w)][1][2]
        /\ Len(api_logs) = 1 /\ api_logs[1].status_code = 503
        /\ usage_stats = <<>>
        /\ rate_limits[KeyOf(w)].requests = <<calls[KeyOf(w)][1][1]>>

\* the request of w found no row for its key and has been decided
ReadAbsent(w) ==
    /\ Decided(w) /\ rate_limit[w] = NoRow
    /\ mwFailed[w] \in {"", "conflict"}

\* C23: table rate_limits holds at most one row per key in every reachable
\* state, also when two first requests of a key both read "absent" before
\* either inserts; both requests of that race go on to the handler, neither
\* is answered 429 or with an error.
OneRecordPerKey ==
    /\ \A k \in RateKeys :
          /\ rate_limit_rows[k] <= 1
          /\ rate_limit_rows[k] = 1 <=> rate_limits[k] # NoRow
    /\ \A w \in Workers :
          ReadAbsent(w) =>
             status[w] = IF pc[w] = "done" THEN 200 ELSE 0

\* two first requests of one key both read "absent"; the INSERT of the
\* second was refused, and both have been answered by the handler
FirstRequestsRaced ==
    \E v, w \in Workers :
        /\ v # w /\ KeyOf(v) = KeyOf(w)
        /\ ReadAbsent(v) /\ ReadAbsent(w)
        /\ mwFailed[v] = "" /\ mwFailed[w] = "conflict"
        /\ pc[v] = "done" /\ pc[w] = "done"
        /\ status[v] = 200 /\ status[w] = 200
        /\ rate_limit_rows[KeyOf(w)] = 1

\* C24: the stored timestamp list of every key is in non-decreasing order
\* in every reachable state, the clock never going back, also when two
\* calls of one key interleave between taking `now`, reading the row and
\* writing it.
Chronological ==
    \A k \in RateKeys :
        rate_limits[k] # NoRow =>
            \A i, j \in DOMAIN rate_limits[k].requests :
                i < j => rate_limits[k].requests[i] <= rate_limits[k].requests[j]

\* text.lower().count(phrase) for a phrase written as one piece
Occurrences(text, phrase) ==
    Cardinality({i \in DOMAIN text : Lower(text[i]) = phrase})

\* the nine formal phrases, in the order of the code's list
NinePhrases ==
    <<"furthermore", "additionally", "moreover", "thus", "therefore",
      "consequently", "hence", "as a result", "in conclusion">>

\* all sentence fragments of the text have the same length
EqualFragments(text) ==
    \A i, j \in DOMAIN AppSentenceLengths(text) :
        AppSentenceLengths(text)[i] = AppSentenceLengths(text)[j]

NoTimestampLost ==
    \A w \in Workers :
        (/\ Decided(w) /\ status[w] # 429 /\ mwFailed[w] = ""
         /\ clock - now[w] < Period) =>
            /\ rate_limits[KeyOf(w)] # NoRow
            /\ \E i \in DOMAIN rate_limits[KeyOf(w)].requests :
                  rate_limits[KeyOf(w)].requests[i] = now[w]

\* C27: additivity under interleaving. When two served requests of one
\* user on one day overlap, each reading the day's usage_stats row before
\* the other commits, the row still counts every recorded request and the
\* sum of their word counts.
NoUpdateLost ==
    \A user \in UserNames, day \in Days :
        Cardinality(StatsOf(user, day)) = 1 =>
            \A i \in StatsOf(user, day) :
                /\ usage_stats[i].humanize_requests
                      = recorded[<<user, day>>].humanize
                /\ usage_stats[i].detect_requests
                      = recorded[<<user, day>>].detect
                /\ usage_stats[i].words_processed
                      = recorded[<<user, day>>].words

\* the admitted calls, of any key, with a timestamp in the window
\* (a - Period, a]; every call of the model comes from the one client IP
AdmittedOfClient(a) ==
    UNION {{<<k, j>> : j \in {i \in DOMAIN calls[k] :
                /\ calls[k][i][2]
                /\ a - Period < calls[k][i][1] /\ calls[k][i][1] <= a}} :
           k \in RateKeys}

\* C28: one client IP gets at most RATE_LIMIT_REQUESTS requests admitted
\* within one window, whatever X-API-Key headers it sends with them.
ClientBound ==
    \A a \in Times : Cardinality(AdmittedOfClient(a)) <= Limit

\* w's request has reached the handler as an authenticated, active user
\* whose payment_status was not "Paid"
UnpaidCaller(w) ==
    /\ request[w].path \in ApiPaths
    /\ h[w].user # NoToken
    /\ dbBefore[w][1][h[w].user].payment_status # "Paid"

PaidPlanNeedsPayment ==
    \A u \in UserNames :
        users[u] # NoRow =>
            ~(users[u].payment_status = "Paid" /\ users[u].plan_id # "free")

====
